---- MODULE Spec2Model ----
(***************************************************************************)
(* Model of the UploadAliyunOSS node (src/upload_aliyun_oss.py).           *)
(* A Python str is a sequence of one-character strings, so that strip,     *)
(* split, splitext, endswith, replace and lstrip are computed as the code  *)
(* computes them.                                                          *)
(***************************************************************************)
EXTENDS Integers, Sequences, FiniteSets, TLC

VARIABLES
    \* the parameters of upload_image (lines 47-58); an image is its number of
    \* dimensions and the identities of its frames
    image, access_key_id, access_key_secret, endpoint, bucket_name,
    dest_path, image_format, output_image,
    \* the function entered, the control position, lines 92-99
    caller, pc, num_images, images_to_process,
    \* _prepare_dest_paths: dest_paths (lines 281-286), result_paths (289-307),
    \* the clock reading of each _process_dest_path call (321), processed_paths
    split_paths, result_paths, stamps, processed_paths,
    \* upload_image: dest_paths (102), bucket (105-106), idx (119), the items
    \* encoded (128-168), the put_object calls (193-197), file_urls (115),
    \* upload_results (116), file_urls_str (59, 222), the exception caught
    \* (232-267), the messages printed, the value returned
    dest_paths, bucket, idx, encoded, put_calls, file_urls, upload_results,
    file_urls_str, fault, printed, ret

inputs == <<image, access_key_id, access_key_secret, endpoint, bucket_name,
            dest_path, image_format, output_image, caller>>
prep_vars == <<split_paths, result_paths, stamps, processed_paths>>
loop_vars == <<bucket, idx, encoded, put_calls, file_urls, upload_results,
               file_urls_str, fault>>
vars == <<inputs, pc, num_images, images_to_process, prep_vars, dest_paths,
          loop_vars, printed, ret>>

\* ------------------------------------------------------------ bounds
MaxImages == 3
MaxLines == 2

\* ------------------------------------------------------- str helpers
Whitespace == {" ", "\t", "\n", "\r"}

Drop(s, k) == SubSeq(s, k + 1, Len(s))
Take(s, k) == SubSeq(s, 1, k)

StartsWith(s, p) == Len(p) <= Len(s) /\ Take(s, Len(p)) = p
EndsWith(s, p) == Len(p) <= Len(s) /\ Drop(s, Len(s) - Len(p)) = p

\* p in s
Contains(s, p) == \E i \in 0..(Len(s) - Len(p)) : SubSeq(s, i + 1, i + Len(p)) = p

RECURSIVE LStripSet(_, _)
LStripSet(s, cs) == IF s # <<>> /\ s[1] \in cs THEN LStripSet(Tail(s), cs) ELSE s

RECURSIVE RStripSet(_, _)
RStripSet(s, cs) ==
    IF s # <<>> /\ s[Len(s)] \in cs THEN RStripSet(Take(s, Len(s) - 1), cs) ELSE s

\* str.strip()
Strip(s) == RStripSet(LStripSet(s, Whitespace), Whitespace)

\* str.split(sep) for a one-character sep: always at least one piece
RECURSIVE Split(_, _)
Split(s, sep) ==
    IF \E i \in 1..Len(s) : s[i] = sep
    THEN LET i == CHOOSE k \in 1..Len(s) : s[k] = sep /\ \A j \in 1..(k - 1) : s[j] # sep
         IN  <<Take(s, i - 1)>> \o Split(Drop(s, i), sep)
    ELSE <<s>>

\* sep.join(parts)
RECURSIVE Join(_, _)
Join(parts, sep) ==
    IF parts = <<>> THEN <<>>
    ELSE IF Len(parts) = 1 THEN parts[1]
    ELSE parts[1] \o sep \o Join(Tail(parts), sep)

\* str.replace(old, new): leftmost non-overlapping occurrences
RECURSIVE Replace(_, _, _)
Replace(s, old, new) ==
    IF Len(s) < Len(old) THEN s
    ELSE IF Take(s, Len(old)) = old THEN new \o Replace(Drop(s, Len(old)), old, new)
    ELSE <<s[1]>> \o Replace(Tail(s), old, new)

Uppers == <<"A", "B", "C", "D", "E", "F", "G", "H", "I", "J", "K", "L", "M", "N", "O", "P", "Q", "R", "S", "T", "U", "V", "W", "X", "Y", "Z">>
Lowers == <<"a", "b", "c", "d", "e", "f", "g", "h", "i", "j", "k", "l", "m", "n", "o", "p", "q", "r", "s", "t", "u", "v", "w", "x", "y", "z">>
LowerChar(c) ==
    IF \E i \in 1..Len(Uppers) : Uppers[i] = c
    THEN Lowers[CHOOSE i \in 1..Len(Uppers) : Uppers[i] = c]
    ELSE c
\* str.lower()
Lower(s) == [i \in 1..Len(s) |-> LowerChar(s[i])]

Digits == <<"0", "1", "2", "3", "4", "5", "6", "7", "8", "9">>
\* str(n) of an f-string, n >= 0
RECURSIVE Str(_)
Str(n) == IF n < 10 THEN <<Digits[n + 1]>> ELSE Str(n \div 10) \o <<Digits[(n % 10) + 1]>>

\* last index of c in s, 0 when absent (str.rfind + 1)
RFind(s, c) ==
    IF \E i \in 1..Len(s) : s[i] = c
    THEN CHOOSE i \in 1..Len(s) : s[i] = c /\ \A j \in (i + 1)..Len(s) : s[j] # c
    ELSE 0

\* os.path.splitext: <<root, ext>>; the extension starts at the last dot of the
\* last path component, leading dots of that component not counting
SplitExt(p) ==
    LET sepIndex == RFind(p, "/")
        dotIndex == RFind(p, ".")
    IN  IF dotIndex > sepIndex
           /\ \E k \in (sepIndex + 1)..(dotIndex - 1) : p[k] # "."
        THEN <<Take(p, dotIndex - 1), Drop(p, dotIndex - 1)>>
        ELSE <<p, <<>>>>

\* ------------------------------------------------- _process_dest_path
TimestampToken == <<"{", "t", "i", "m", "e", "s", "t", "a", "m", "p", "}">>
\* readings of datetime.now().strftime("%Y%m%d_%H%M%S_%f")
Timestamps == { <<"2", "0", "2", "6", "1", "1", "0", "2", "_", "1", "2", "0", "0", "0", "0", "_", "0", "0", "0", "0", "0", "1">>, <<"2", "0", "2", "6", "1", "1", "0", "2", "_", "1", "2", "0", "0", "0", "0", "_", "0", "0", "0", "0", "0", "2">> }
NoStamp == <<>>

image_extensions == << <<".", "p", "n", "g">>, <<".", "j", "p", "g">>, <<".", "j", "p", "e", "g">>, <<".", "w", "e", "b", "p">> >>
InList(x, l) == \E i \in 1..Len(l) : l[i] = x

FileExt(fmt) ==
    CASE fmt = "PNG" -> <<".", "p", "n", "g">>
      [] fmt = "JPEG" -> <<".", "j", "p", "g">>
      [] fmt = "WEBP" -> <<".", "w", "e", "b", "p">>
      [] OTHER -> <<".", "p", "n", "g">>

\* lines 320-322
SubstituteTimestamp(path, ts) ==
    IF Contains(path, TimestampToken) THEN Replace(path, TimestampToken, ts) ELSE path

\* dest_path.lstrip("/")
StripOneSlash(path) == IF path # <<>> /\ path[1] = "/" THEN Tail(path) ELSE path
LStripSlash(path) == LStripSet(path, {"/"})

\* lines 340-344
EnsureExtension(path, file_ext) ==
    IF ~ \E i \in 1..Len(image_extensions) : EndsWith(Lower(path), image_extensions[i])
    THEN path \o file_ext
    ELSE IF ~ EndsWith(Lower(path), Lower(file_ext))
    THEN SplitExt(path)[1] \o file_ext
    ELSE path

ProcessDestPath(path, fmt, ts) ==
    LET p == SubstituteTimestamp(path, ts)
        current_ext == Lower(SplitExt(p)[2])
    IN  IF current_ext # <<>> /\ ~ InList(current_ext, image_extensions)
        THEN LStripSlash(p)
        ELSE LStripSlash(EnsureExtension(p, FileExt(fmt)))

\* ------------------------------------------------- _prepare_dest_paths
DefaultDestPath == <<"c", "o", "m", "f", "y", "u", "i", "/", "{", "t", "i", "m", "e", "s", "t", "a", "m", "p", "}", ".", "p", "n", "g">>

\* lines 281-286
SplitDestPaths(dest_path_input) ==
    LET pieces == Split(Strip(dest_path_input), "\n")
        kept == SelectSeq(pieces, LAMBDA q : Strip(q) # <<>>)
        paths == [i \in 1..Len(kept) |-> Strip(kept[i])]
    IN  IF paths = <<>> THEN <<DefaultDestPath>> ELSE paths

\* mutants of SuffixedPath: a one-based suffix; the suffix left out
SuffixedPath_OneBased(last_path, suffix_index) ==
    LET path_without_ext == SplitExt(last_path)[1]
        ext == SplitExt(last_path)[2]
    IN  path_without_ext \o <<"-">> \o Str(suffix_index + 1) \o ext
SuffixedPath_NoSuffix(last_path, suffix_index) == last_path

\* lines 298-306
SuffixedPath(last_path, suffix_index) ==
    LET path_without_ext == SplitExt(last_path)[1]
        ext == SplitExt(last_path)[2]
    IN  IF ext = <<>>
        THEN path_without_ext \o <<"-">> \o Str(suffix_index)
        ELSE path_without_ext \o <<"-">> \o Str(suffix_index) \o ext

\* mutant of ResultPaths: the slice [:num_images] left out
ResultPaths_NoTruncate(paths, n) ==
    IF Len(paths) >= n
    THEN paths
    ELSE paths \o [k \in 1..(n - Len(paths)) |-> SuffixedPath(paths[Len(paths)], k - 1)]

\* lines 289-307
ResultPaths(paths, n) ==
    IF Len(paths) >= n
    THEN Take(paths, n)
    ELSE paths \o [k \in 1..(n - Len(paths)) |-> SuffixedPath(paths[Len(paths)], k - 1)]


\* ------------------------------------------------- _generate_file_url
GenerateFileUrl(ep, bucket_nm, path) ==
    LET e1 == IF ~ StartsWith(ep, <<"h", "t", "t", "p">>) THEN <<"h", "t", "t", "p", "s", ":", "/", "/">> \o ep ELSE ep
        e2 == RStripSet(e1, {"/"})
        base_url == IF Contains(e2, <<"o", "s", "s", "-">>)
                    THEN Replace(e2, <<":", "/", "/">>, <<":", "/", "/">> \o bucket_nm \o <<".">>)
                    ELSE e2 \o <<"/">> \o bucket_nm
    IN  base_url \o <<"/">> \o path

\* ------------------------------------------------------- upload_image
StatusOK == 200
\* statuses put_object can return without raising
Statuses == {200, 203}
\* the except clauses of lines 232-276, in order
Faults == {"AccessDenied", "NoSuchBucket", "InvalidAccessKeyId",
           "SignatureDoesNotMatch", "OssError", "Exception"}
Formats == {"PNG", "JPEG", "WEBP"}

MsgKeyIdEmpty == "AccessKey ID empty"
MsgKeySecretEmpty == "AccessKey Secret empty"
MsgBucketEmpty == "Bucket name empty"
MsgDestPathEmpty == "dest path empty"

\* lines 233, 240, 247, 254, 261, 268
FaultMessage(f) ==
    CASE f = "AccessDenied" -> "access denied, check AccessKey permission"
      [] f = "NoSuchBucket" -> "bucket does not exist, check bucket_name"
      [] f = "InvalidAccessKeyId" -> "invalid AccessKey ID"
      [] f = "SignatureDoesNotMatch" -> "signature mismatch, check AccessKey Secret"
      [] f = "OssError" -> "OSS error"
      [] OTHER -> "unknown error while uploading to OSS"

\* a message with the failure glyph, as print()ed
Glyph(msg) == [glyph |-> TRUE, text |-> msg]
Plain(msg) == [glyph |-> FALSE, text |-> msg]

NoReturn == [kind |-> "none"]
PassThrough(img, urls) == [kind |-> "tuple", image |-> img, file_urls |-> urls]
UiPayload(lines) == [kind |-> "ui", text |-> lines]

\* lines 64-67, 71-74, 78-81, 85-88
ValidationReturn(msg) ==
    IF output_image THEN PassThrough(image, file_urls_str) ELSE UiPayload(<<Plain(msg)>>)

\* mutant of ValidationError: the fields are not stripped
ValidationError_NoStrip ==
    IF access_key_id = <<>> THEN MsgKeyIdEmpty
    ELSE IF access_key_secret = <<>> THEN MsgKeySecretEmpty
    ELSE IF bucket_name = <<>> THEN MsgBucketEmpty
    ELSE IF dest_path = <<>> THEN MsgDestPathEmpty
    ELSE ""

\* lines 62, 69, 76, 83: the failed check, "" when all four pass
ValidationError ==
    IF Strip(access_key_id) = <<>> THEN MsgKeyIdEmpty
    ELSE IF Strip(access_key_secret) = <<>> THEN MsgKeySecretEmpty
    ELSE IF Strip(bucket_name) = <<>> THEN MsgBucketEmpty
    ELSE IF Strip(dest_path) = <<>> THEN MsgDestPathEmpty
    ELSE ""

\* mutant of FaultReturn: the handlers return the status payload in both modes
FaultReturn_StatusOnly(f) == UiPayload(<<Glyph(FaultMessage(f))>>)

\* lines 235-238 and the five handlers after it
FaultReturn(f) ==
    IF output_image THEN PassThrough(image, file_urls_str)
    ELSE UiPayload(<<Glyph(FaultMessage(f))>>)

\* lines 225-230
FinalReturn(urls) ==
    IF output_image THEN PassThrough(image, urls)
    ELSE UiPayload(upload_results \o <<[links |-> urls]>>)

\* lines 124-126
IsImageFormat(path) == InList(Lower(SplitExt(path)[2]), image_extensions)

\* lines 109-113
ContentType(fmt) ==
    CASE fmt = "PNG" -> "image/png"
      [] fmt = "JPEG" -> "image/jpeg"
      [] fmt = "WEBP" -> "image/webp"
      [] OTHER -> "image/png"

\* lines 175-190
RawContentType(ext) ==
    CASE ext = <<".", "m", "p", "4">> -> "video/mp4"
      [] ext = <<".", "a", "v", "i">> -> "video/x-msvideo"
      [] ext = <<".", "m", "o", "v">> -> "video/quicktime"
      [] ext = <<".", "m", "k", "v">> -> "video/x-matroska"
      [] ext = <<".", "w", "m", "v">> -> "video/x-ms-wmv"
      [] ext = <<".", "f", "l", "v">> -> "video/x-flv"
      [] ext = <<".", "w", "e", "b", "m">> -> "video/webm"
      [] ext = <<".", "g", "i", "f">> -> "image/gif"
      [] ext = <<".", "b", "m", "p">> -> "image/bmp"
      [] ext = <<".", "t", "i", "f", "f">> -> "image/tiff"
      [] ext = <<".", "t", "g", "a">> -> "image/x-tga"
      [] OTHER -> "application/octet-stream"

NoBucket == [open |-> FALSE]

\* lines 119-197: the put_object call issued for item idx
PutCall ==
    LET path == dest_paths[idx + 1]
        is_image == IsImageFormat(path)
    IN  [key |-> path,
         item |-> idx,
         frame |-> images_to_process.frames[idx + 1],
         encoded |-> is_image,
         content_type |-> IF is_image THEN ContentType(image_format)
                          ELSE RawContentType(Lower(SplitExt(path)[2]))]

\* ------------------------------------------------------------ inputs
Images ==
    {[ndim |-> 3, frames |-> <<1>>]}
        \cup {[ndim |-> 4, frames |-> [i \in 1..n |-> i]] : n \in 0..MaxImages}

Credentials == { <<>>, <<" ">>, <<"k">> }
BucketNames == { <<>>, <<"\t">>, <<"b">> }
Endpoints == { <<"h", "t", "t", "p", "s", ":", "/", "/", "o", "s", "s", "-", "x", ".", "c", "o", "m", "/">>, <<"c", "d", "n", ".", "i", "o">> }
UploadTemplates ==
    { <<>>, <<" ", "\n">>, <<"a", ".", "p", "n", "g">>, <<"a", ".", "p", "n", "g", "\n", "b", ".", "p", "n", "g">>, <<"c", ".", "m", "p", "4">>, <<"{", "t", "i", "m", "e", "s", "t", "a", "m", "p", "}", ".", "p", "n", "g">> }

PathLines ==
    { <<"a", ".", "p", "n", "g">>, <<"b", ".", "p", "n", "g">>, <<"a", "-", "0", ".", "p", "n", "g">>, <<"o", "u", "t", "/", "i", "m", "g">>, <<"o", "u", "t", "/">>, <<"/", "/", "c", ".", "m", "p", "4">>,
      <<" ", "/", "a", ".", "J", "P", "G">>, <<"{", "t", "i", "m", "e", "s", "t", "a", "m", "p", "}", ".", "p", "n", "g">>, <<" ">>, <<".", "p", "n", "g">>, <<"/", "/", "{", "t", "i", "m", "e", "s", "t", "a", "m", "p", "}">>,
      <<"v", "1", ".", "0", "/", "d">> }
PathTemplates ==
    { Join(ls, <<"\n">>) : ls \in UNION { [1..k -> PathLines] : k \in 1..MaxLines } }

\* state of a call that has not started
IdleLocals ==
    /\ images_to_process = image
    /\ split_paths = <<>>
    /\ result_paths = <<>>
    /\ stamps = <<>>
    /\ processed_paths = <<>>
    /\ dest_paths = <<>>
    /\ bucket = NoBucket
    /\ idx = 0
    /\ encoded = <<>>
    /\ put_calls = <<>>
    /\ file_urls = <<>>
    /\ upload_results = <<>>
    /\ file_urls_str = <<>>
    /\ fault = "none"
    /\ printed = <<>>
    /\ ret = NoReturn

\* a call of upload_image
Init ==
    /\ image \in Images
    /\ access_key_id \in Credentials
    /\ access_key_secret \in Credentials
    /\ endpoint \in Endpoints
    /\ bucket_name \in BucketNames
    /\ dest_path \in UploadTemplates
    /\ image_format \in Formats
    /\ output_image \in BOOLEAN
    /\ caller = "upload_image"
    /\ pc = "validate"
    /\ num_images = 0
    /\ IdleLocals

\* ------------------------------------------------------------ actions
\* lines 59-88: a blank required field
ValidateFail ==
    /\ pc = "validate"
    /\ ValidationError # ""
    /\ printed' = Append(printed, Glyph(ValidationError))
    /\ ret' = ValidationReturn(ValidationError)
    /\ pc' = "done"
    /\ UNCHANGED <<inputs, num_images, images_to_process, prep_vars, dest_paths, loop_vars>>

\* lines 59-102: the checks pass, the batch is shaped, _prepare_dest_paths is called
Begin ==
    /\ pc = "validate"
    /\ ValidationError = ""
    /\ images_to_process' = [ndim |-> 4, frames |-> image.frames]
    /\ num_images' = IF image.ndim = 4 THEN Len(image.frames) ELSE 1
    /\ pc' = "prepare"
    /\ UNCHANGED <<inputs, prep_vars, dest_paths, loop_vars, printed, ret>>

\* lines 281-307
PrepareSplit ==
    /\ pc = "prepare"
    /\ split_paths' = SplitDestPaths(dest_path)
    /\ result_paths' = ResultPaths(split_paths', num_images)
    /\ pc' = "process"
    /\ UNCHANGED <<inputs, num_images, images_to_process, stamps, processed_paths,
                   dest_paths, loop_vars, printed, ret>>

\* lines 311-313: one iteration, with its own reading of the clock
ProcessNext ==
    /\ pc = "process"
    /\ Len(processed_paths) < Len(result_paths)
    /\ LET path == result_paths[Len(processed_paths) + 1]
       IN  \E ts \in (IF Contains(path, TimestampToken) THEN Timestamps ELSE {NoStamp}) :
               /\ processed_paths' = Append(processed_paths, ProcessDestPath(path, image_format, ts))
               /\ stamps' = Append(stamps, ts)
    /\ UNCHANGED <<inputs, pc, num_images, images_to_process, split_paths, result_paths,
                   dest_paths, loop_vars, printed, ret>>

\* line 315, and line 102 in the caller
PrepareReturn ==
    /\ pc = "process"
    /\ Len(processed_paths) = Len(result_paths)
    /\ dest_paths' = processed_paths
    /\ pc' = IF caller = "upload_image" THEN "connect" ELSE "returned"
    /\ UNCHANGED <<inputs, num_images, images_to_process, prep_vars, loop_vars, printed, ret>>

\* lines 105-116
Connect ==
    /\ pc = "connect"
    /\ bucket' = [open |-> TRUE, auth |-> <<access_key_id, access_key_secret>>,
                  endpoint |-> endpoint, bucket_name |-> bucket_name]
    /\ pc' = "upload"
    /\ UNCHANGED <<inputs, num_images, images_to_process, prep_vars, dest_paths, idx,
                   encoded, put_calls, file_urls, upload_results, file_urls_str, fault,
                   printed, ret>>

\* mutant of UploadItemReturns: a failed item leaves no entry in file_urls
UploadItemReturns_SkipFailed ==
    /\ pc = "upload"
    /\ idx < num_images
    /\ \E status \in Statuses :
         LET path == dest_paths[idx + 1] IN
         /\ IF status = StatusOK
            THEN /\ file_urls' = Append(file_urls, GenerateFileUrl(endpoint, bucket_name, path))
                 /\ upload_results' = Append(upload_results, [ok |-> TRUE, path |-> path, status |-> status])
                 /\ printed' = Append(printed, [uploaded |-> idx + 1, of |-> num_images, path |-> path])
            ELSE /\ file_urls' = file_urls
                 /\ upload_results' = Append(upload_results, [ok |-> FALSE, path |-> path, status |-> status])
                 /\ printed' = Append(printed, Glyph([failed |-> idx + 1, of |-> num_images, status |-> status]))
    /\ encoded' = IF PutCall.encoded THEN Append(encoded, idx) ELSE encoded
    /\ put_calls' = Append(put_calls, PutCall)
    /\ idx' = idx + 1
    /\ UNCHANGED <<inputs, pc, num_images, images_to_process, prep_vars, dest_paths,
                   bucket, file_urls_str, fault, ret>>

\* lines 119-219: one iteration whose put_object returns a status
UploadItemReturns ==
    /\ pc = "upload"
    /\ idx < num_images
    /\ \E status \in Statuses :
         LET path == dest_paths[idx + 1] IN
         /\ IF status = StatusOK
            THEN /\ file_urls' = Append(file_urls, GenerateFileUrl(endpoint, bucket_name, path))
                 /\ upload_results' = Append(upload_results, [ok |-> TRUE, path |-> path, status |-> status])
                 /\ printed' = Append(printed, [uploaded |-> idx + 1, of |-> num_images, path |-> path])
            ELSE /\ file_urls' = Append(file_urls, <<>>)
                 /\ upload_results' = Append(upload_results, [ok |-> FALSE, path |-> path, status |-> status])
                 /\ printed' = Append(printed, Glyph([failed |-> idx + 1, of |-> num_images, status |-> status]))
    /\ encoded' = IF PutCall.encoded THEN Append(encoded, idx) ELSE encoded
    /\ put_calls' = Append(put_calls, PutCall)
    /\ idx' = idx + 1
    /\ UNCHANGED <<inputs, pc, num_images, images_to_process, prep_vars, dest_paths,
                   bucket, file_urls_str, fault, ret>>

\* mutant of UploadItemThrows: the fault is caught inside the loop, which goes on
UploadItemThrows_Continue ==
    /\ pc = "upload"
    /\ idx < num_images
    /\ \E f \in Faults :
         /\ fault' = f
         /\ printed' = Append(printed, Glyph(FaultMessage(f)))
    /\ file_urls' = Append(file_urls, <<>>)
    /\ encoded' = IF PutCall.encoded THEN Append(encoded, idx) ELSE encoded
    /\ put_calls' = Append(put_calls, PutCall)
    /\ idx' = idx + 1
    /\ UNCHANGED <<inputs, pc, num_images, images_to_process, prep_vars, dest_paths, bucket,
                   upload_results, file_urls_str, ret>>

\* lines 119-197 and 232-276: one iteration whose put_object raises
UploadItemThrows ==
    /\ pc = "upload"
    /\ idx < num_images
    /\ \E f \in Faults :
         /\ fault' = f
         /\ printed' = Append(printed, Glyph(FaultMessage(f)))
         /\ ret' = FaultReturn(f)
    /\ encoded' = IF PutCall.encoded THEN Append(encoded, idx) ELSE encoded
    /\ put_calls' = Append(put_calls, PutCall)
    /\ pc' = "done"
    /\ UNCHANGED <<inputs, num_images, images_to_process, prep_vars, dest_paths, bucket,
                   idx, file_urls, upload_results, file_urls_str>>

\* lines 221-230
Finish ==
    /\ pc = "upload"
    /\ idx = num_images
    /\ file_urls_str' = Join(file_urls, <<"\n">>)
    /\ ret' = FinalReturn(file_urls_str')
    /\ pc' = "done"
    /\ UNCHANGED <<inputs, num_images, images_to_process, prep_vars, dest_paths, bucket,
                   idx, encoded, put_calls, file_urls, upload_results, fault, printed>>

Next ==
    \/ ValidateFail
    \/ Begin
    \/ PrepareSplit
    \/ ProcessNext
    \/ PrepareReturn
    \/ Connect
    \/ UploadItemReturns
    \/ UploadItemThrows
    \/ Finish

Spec == Init /\ [][Next]_vars

\* a direct call of _prepare_dest_paths(dest_path, num_images, image_format)
InitPaths ==
    /\ image = [ndim |-> 4, frames |-> <<>>]
    /\ access_key_id = <<>>
    /\ access_key_secret = <<>>
    /\ endpoint = <<>>
    /\ bucket_name = <<>>
    /\ dest_path \in PathTemplates
    /\ image_format \in Formats
    /\ output_image = TRUE
    /\ caller = "_prepare_dest_paths"
    /\ pc = "prepare"
    /\ num_images \in 0..MaxImages
    /\ IdleLocals

NextPaths ==
    \/ PrepareSplit
    \/ ProcessNext
    \/ PrepareReturn

SpecPaths == InitPaths /\ [][NextPaths]_vars


\* ------------------------------------------------------------ claims
IsBlank(s) == \A i \in 1..Len(s) : s[i] \in Whitespace
AnyBlank ==
    IsBlank(access_key_id) \/ IsBlank(access_key_secret) \/ IsBlank(bucket_name)
        \/ IsBlank(dest_path)
FirstBlankMessage ==
    IF IsBlank(access_key_id) THEN MsgKeyIdEmpty
    ELSE IF IsBlank(access_key_secret) THEN MsgKeySecretEmpty
    ELSE IF IsBlank(bucket_name) THEN MsgBucketEmpty
    ELSE MsgDestPathEmpty
NoWorkDone ==
    /\ split_paths = <<>> /\ result_paths = <<>> /\ stamps = <<>> /\ dest_paths = <<>>
    /\ bucket = NoBucket
    /\ encoded = <<>>
    /\ put_calls = <<>>
\* put_object was issued for items 1..k, once each, in input order
PutsAreFirst(k) ==
    /\ Len(put_calls) = k
    /\ k <= num_images
    /\ \A i \in 1..k :
         /\ put_calls[i].item = i - 1
         /\ put_calls[i].key = dest_paths[i]
         /\ put_calls[i].frame = image.frames[i]
PriorItemsOk == \A i \in 1..Len(upload_results) : upload_results[i].status = StatusOK

\* C1: in pass-through mode, a fault on item K > 1 after items 1..K-1 returned
\* 200 returns a URL string holding the K-1 URLs accumulated, not an empty one.
C1_PartialUrlsOnFault ==
    (pc = "done" /\ output_image /\ fault # "none" /\ idx >= 1 /\ PriorItemsOk)
        => /\ ret.kind = "tuple"
           /\ ret.file_urls # <<>>
           /\ ret.file_urls = Join(file_urls, <<"\n">>)

\* C2: a fault thrown by put_object on item K ends the call: exactly K
\* put_object calls were made, for items 1..K in input order, and the call has
\* returned (no action is enabled once pc = "done").
C2_FaultAbortsRemaining ==
    fault # "none"
        => /\ pc = "done"
           /\ ret # NoReturn
           /\ PutsAreFirst(idx + 1)
           /\ Len(upload_results) = idx
C2_Witness ==
    /\ pc = "done"
    /\ fault = "NoSuchBucket"
    /\ idx = 1
    /\ num_images = 3
    /\ Len(put_calls) = 2

\* C3: when nothing is thrown, put_object is issued once per image in input
\* order whatever the statuses, and in pass-through mode the URL string is the
\* newline-join of N entries, entry i empty iff item i's status was not 200.
C3_NonOkNotFatal ==
    (pc = "done" /\ fault = "none" /\ ~ AnyBlank)
        => /\ PutsAreFirst(num_images)
           /\ Len(put_calls) = num_images
           /\ Len(upload_results) = num_images
           /\ output_image =>
                /\ ret.kind = "tuple"
                /\ IF num_images = 0 THEN ret.file_urls = <<>>
                   ELSE LET entries == Split(ret.file_urls, "\n")
                        IN  /\ Len(entries) = num_images
                            /\ \A i \in 1..num_images :
                                 /\ (entries[i] = <<>>) <=> (upload_results[i].status # StatusOK)
                                 /\ entries[i] # <<>> => EndsWith(entries[i], <<"/">> \o dest_paths[i])
C3_Witness ==
    /\ pc = "done"
    /\ fault = "none"
    /\ output_image
    /\ num_images = 3
    /\ Len(upload_results) = 3
    /\ upload_results[1].status = StatusOK
    /\ upload_results[2].status # StatusOK
    /\ upload_results[3].status = StatusOK
    /\ ret.kind = "tuple"

\* C4: a required field that is blank after trimming ends the call before any
\* path derivation, authentication, encoding or put_object; the message is that
\* of the first blank field in the order key id, key secret, bucket name,
\* destination path; in pass-through mode the result is (image, "").
C4_ValidationFailsFast ==
    AnyBlank
        => /\ NoWorkDone
           /\ pc \in {"validate", "done"}
           /\ pc = "done" =>
                /\ printed = <<Glyph(FirstBlankMessage)>>
                /\ IF output_image THEN ret = PassThrough(image, <<>>)
                   ELSE ret = UiPayload(<<Plain(FirstBlankMessage)>>)
C4_Witness ==
    /\ pc = "done"
    /\ access_key_id = <<" ">>
    /\ bucket_name = <<>>
    /\ dest_path = <<>>
    /\ Len(image.frames) = 2
    /\ output_image
    /\ printed = <<Glyph(MsgKeyIdEmpty)>>
    /\ ret = PassThrough(image, <<>>)

\* C5: in pass-through mode every return path (validation failure, completion
\* with any statuses, each caught fault class) returns the original image as
\* the first element of the result, never the status payload; the loop never
\* indexes past the derived paths or the batch, so nothing escapes the handlers.
C5_PassThroughReturnsImage ==
    /\ (pc = "done" /\ output_image) => (ret.kind = "tuple" /\ ret.image = image)
    /\ pc # "done" => ret = NoReturn
    /\ pc = "upload" =>
         /\ idx <= num_images
         /\ Len(dest_paths) = num_images
         /\ Len(images_to_process.frames) = num_images
C5_Witness ==
    /\ pc = "done"
    /\ output_image
    /\ fault = "Exception"
    /\ image.ndim = 3
    /\ ret.kind = "tuple"
    /\ ret.image = image

\* C6: _prepare_dest_paths returns exactly N identifiers in image order, for
\* N = 0 the empty list, and the first N when the template has more fragments.
C6_OnePathPerImage ==
    pc = "returned"
        => /\ Len(dest_paths) = num_images
           /\ \A i \in 1..num_images :
                /\ i <= Len(split_paths) => result_paths[i] = split_paths[i]
                /\ dest_paths[i] = ProcessDestPath(result_paths[i], image_format, stamps[i])
C6_Witness ==
    /\ pc = "returned"
    /\ Len(split_paths) = 2
    /\ num_images = 0
    /\ dest_paths = <<>>

\* the extension of p starts after its first c characters
ExtAt(p, c) ==
    /\ c < Len(p)
    /\ p[c + 1] = "."
    /\ \A j \in (c + 2)..Len(p) : p[j] \notin {".", "/"}
    /\ \E j \in 1..c : p[j] # "." /\ \A m \in j..c : p[m] # "/"
IsExtCut(p, c) == ExtAt(p, c) \/ (c = Len(p) /\ ~ \E d \in 0..(Len(p) - 1) : ExtAt(p, d))

\* C7: with F fragments and F < N, image i < F uses fragment i and image
\* i >= F uses the last fragment with "-(i-F)" inserted before its extension
\* (appended when it has none); "a.png\nb.png" with 3 images and PNG yields
\* a.png, b.png, b-0.png.
C7_SuffixOnLastFragment ==
    LET F == Len(split_paths)
        last == split_paths[F]
    IN  /\ (pc \in {"process", "returned"} /\ F < num_images)
            => /\ Len(result_paths) = num_images
               /\ \A i \in 1..F : result_paths[i] = split_paths[i]
               /\ \A i \in (F + 1)..num_images :
                    \E c \in 0..Len(last) :
                        /\ IsExtCut(last, c)
                        /\ result_paths[i]
                             = Take(last, c) \o <<"-">> \o Str(i - 1 - F) \o Drop(last, c)
        /\ (pc = "returned" /\ dest_path = <<"a", ".", "p", "n", "g", "\n", "b", ".", "p", "n", "g">> /\ num_images = 3
              /\ image_format = "PNG")
            => dest_paths = << <<"a", ".", "p", "n", "g">>, <<"b", ".", "p", "n", "g">>, <<"b", "-", "0", ".", "p", "n", "g">> >>
C7_Witness ==
    /\ pc = "returned"
    /\ dest_path = <<"a", ".", "p", "n", "g", "\n", "b", ".", "p", "n", "g">>
    /\ num_images = 3
    /\ image_format = "PNG"
    /\ dest_paths = << <<"a", ".", "p", "n", "g">>, <<"b", ".", "p", "n", "g">>, <<"b", "-", "0", ".", "p", "n", "g">> >>

Distinct(paths, from) ==
    \A i, j \in from..Len(paths) : i # j => paths[i] # paths[j]

\* C8 (as claimed): with fewer fragments than images, the N identifiers are
\* pairwise distinct.
C8_AllPathsDistinct ==
    (pc = "returned" /\ Len(split_paths) < num_images) => Distinct(dest_paths, 1)

\* C8 (amended): with fewer fragments than images, the identifiers of the last
\* fragment and of the images derived from it are pairwise distinct, whatever
\* the timestamps.
C8_LastFragmentFamilyDistinct ==
    (pc = "returned" /\ Len(split_paths) < num_images)
        => Distinct(dest_paths, Len(split_paths))
C8_Witness ==
    /\ pc = "returned"
    /\ Len(split_paths) = 1
    /\ num_images = 3
    /\ stamps[2] \in Timestamps
    /\ stamps[2] = stamps[3]
    /\ stamps[1] = stamps[2]
    /\ Distinct(dest_paths, 1)

\* fragment i as _process_dest_path sees it after the timestamp substitution
Substituted(i) == SubstituteTimestamp(result_paths[i], stamps[i])
IsImageTarget(p) ==
    LET e == Lower(SplitExt(p)[2]) IN e = <<>> \/ InList(e, image_extensions)

\* C9: a fragment with no extension or a recognised image extension yields an
\* identifier whose extension is the chosen format's, which the upload loop
\* classifies as an image target.
C9_ImageExtensionForced ==
    pc = "returned"
        => \A i \in 1..Len(dest_paths) :
             IsImageTarget(Substituted(i))
                => /\ Lower(SplitExt(dest_paths[i])[2]) = FileExt(image_format)
                   /\ IsImageFormat(dest_paths[i])

LeadingSlashes(p) ==
    CHOOSE k \in 0..Len(p) :
        /\ \A j \in 1..k : p[j] = "/"
        /\ k < Len(p) => p[k + 1] # "/"

\* C10 (as claimed): exactly one leading "/" is stripped in both branches: k
\* leading slashes leave k-1, and an opaque fragment is otherwise unmodified.
C10_StripsExactlyOneSlash ==
    pc = "returned"
        => \A i \in 1..Len(dest_paths) :
             LET p == Substituted(i)
                 k == LeadingSlashes(p)
             IN  /\ k >= 1 => LeadingSlashes(dest_paths[i]) = k - 1
                 /\ ~ IsImageTarget(p) => dest_paths[i] = Drop(p, IF k >= 1 THEN 1 ELSE 0)

\* C10 (amended): every leading "/" is stripped in both branches: the
\* identifier starts with no slash, and an opaque fragment is otherwise
\* unmodified.
C10_StripsAllLeadingSlashes ==
    pc = "returned"
        => \A i \in 1..Len(dest_paths) :
             LET p == Substituted(i)
                 k == LeadingSlashes(p)
             IN  /\ LeadingSlashes(dest_paths[i]) = 0
                 /\ ~ IsImageTarget(p) => dest_paths[i] = Drop(p, k)
C10_Witness ==
    /\ pc = "returned"
    /\ num_images = 2
    /\ LeadingSlashes(Substituted(1)) = 2
    /\ ~ IsImageTarget(Substituted(1))
    /\ dest_paths[1] = <<"c", ".", "m", "p", "4">>
    /\ LeadingSlashes(Substituted(2)) = 1
    /\ IsImageTarget(Substituted(2))
    /\ LeadingSlashes(dest_paths[2]) = 0

====
